---- MODULE Spec2Model ----
(***************************************************************************)
(* CompressionStream / DecompressionStream polyfill (src/index.ts).        *)
(*                                                                         *)
(* The module's own code is the format validation, the two constructors    *)
(* and the conditional global registration.  The zlib transforms and the   *)
(* Readable.toWeb / Writable.toWeb bridges are collaborators of the host   *)
(* runtime; they are modelled from the contract the specification gives    *)
(* for them (Codec Provider, Stream Bridge).                               *)
(***************************************************************************)
EXTENDS Integers, Sequences, FiniteSets, TLC

VARIABLES
    globals,      \* globalThis.CompressionStream / globalThis.DecompressionStream
    adapters,     \* the adapter objects constructed so far
    transforms,   \* the native zlib transforms allocated so far
    readables,    \* the web ReadableStreams created by Readable.toWeb
    writables,    \* the web WritableStreams created by Writable.toWeb
    last,         \* the outcome of the most recent constructor call
    loads         \* how many times the module body has been evaluated

vars == <<globals, adapters, transforms, readables, writables, last, loads>>

\* Bounds of the model.
MaxAdapters == 2
MaxLen == 2
MaxPending == 1
MaxLoads == 2

(***************************************************************************)
(* JavaScript values handed to the constructors.                           *)
(***************************************************************************)
Str(s) == [type |-> "string", val |-> s]

FormatNames == {"gzip", "deflate", "deflate-raw"}

FormatValues == {Str(f) : f \in FormatNames}

OtherValues ==
    {Str("bad"), Str("GZIP"), Str(""), Str("toString"), Str("constructor"),
     Str("__proto__"),
     [type |-> "number", val |-> "123"],
     [type |-> "undefined", val |-> "undefined"]}

ArgValues == FormatValues \cup OtherValues

(***************************************************************************)
(* The two lookup tables: format name -> zlib factory.                     *)
(***************************************************************************)
COMPRESSION_FORMATS_SwappedRaw ==
    ("deflate" :> "createDeflateRaw") @@
    ("deflate-raw" :> "createDeflate") @@
    ("gzip" :> "createGzip")

COMPRESSION_FORMATS ==
    ("deflate" :> "createDeflate") @@
    ("deflate-raw" :> "createDeflateRaw") @@
    ("gzip" :> "createGzip")

DECOMPRESSION_FORMATS_SwappedRaw ==
    ("deflate" :> "createInflateRaw") @@
    ("deflate-raw" :> "createInflate") @@
    ("gzip" :> "createGunzip")

DECOMPRESSION_FORMATS_Compressing ==
    ("deflate" :> "createDeflate") @@
    ("deflate-raw" :> "createDeflateRaw") @@
    ("gzip" :> "createGzip")

DECOMPRESSION_FORMATS ==
    ("deflate" :> "createInflate") @@
    ("deflate-raw" :> "createInflateRaw") @@
    ("gzip" :> "createGunzip")

\* Both tables are plain object literals: their prototype is Object.prototype,
\* whose properties are these.
ObjectPrototypeFunctions ==
    {"constructor", "toString", "toLocaleString", "valueOf", "hasOwnProperty",
     "isPrototypeOf", "propertyIsEnumerable", "__defineGetter__",
     "__defineSetter__", "__lookupGetter__", "__lookupSetter__"}

ObjectPrototypeKeys == ObjectPrototypeFunctions \cup {"__proto__"}

\* `key in table`: own properties and inherited ones.
HasProperty(table, key) ==
    key \in DOMAIN table \/ key \in ObjectPrototypeKeys

\* `table[key]`: the own property, else the inherited one, else undefined.
GetProperty(table, key) ==
    IF key \in DOMAIN table THEN [kind |-> "factory", name |-> table[key]]
    ELSE IF key \in ObjectPrototypeFunctions THEN [kind |-> "function", name |-> key]
    ELSE IF key = "__proto__" THEN [kind |-> "object", name |-> key]
    ELSE [kind |-> "undefined", name |-> key]

isValidFormat_NoRaw(format) ==
    format.type = "string" /\ format.val \in {"deflate", "gzip"}

isValidFormat(format) ==
    format.type = "string" /\ HasProperty(COMPRESSION_FORMATS, format.val)

(***************************************************************************)
(* Codec Provider (node:zlib).  Bytes are naturals below 256.  The wire    *)
(* formats keep their framing - gzip: header, deflate payload, check and   *)
(* length trailer; deflate: two-byte zlib header, payload, check trailer;  *)
(* deflate-raw: the bare payload - with the gzip header cut to its magic   *)
(* and method bytes and every check or length field narrowed to one byte.  *)
(* The deflate payload is one final stored block: type, LEN, NLEN, data.   *)
(***************************************************************************)
Min(a, b) == IF a < b THEN a ELSE b

ZlibCodec(name) ==
    CASE name = "createGzip"       -> [dir |-> "compress",   wire |-> "gzip"]
      [] name = "createDeflate"    -> [dir |-> "compress",   wire |-> "zlib"]
      [] name = "createDeflateRaw" -> [dir |-> "compress",   wire |-> "raw"]
      [] name = "createGunzip"     -> [dir |-> "decompress", wire |-> "gzip"]
      [] name = "createInflate"    -> [dir |-> "decompress", wire |-> "zlib"]
      [] name = "createInflateRaw" -> [dir |-> "decompress", wire |-> "raw"]

Header(wire) ==
    CASE wire = "gzip" -> <<31, 139, 8>>
      [] wire = "zlib" -> <<120, 156>>
      [] wire = "raw"  -> <<>>

RECURSIVE Checksum(_)
Checksum(B) ==
    IF B = <<>> THEN 1
    ELSE (3 * Checksum(SubSeq(B, 1, Len(B) - 1)) + B[Len(B)] + 1) % 256

Trailer(wire, B) ==
    CASE wire = "gzip" -> <<Checksum(B), Len(B) % 256>>
      [] wire = "zlib" -> <<Checksum(B)>>
      [] wire = "raw"  -> <<>>

DeflateBlock(B) == <<1, Len(B), 255 - Len(B)>> \o B

Encode(wire, B) == Header(wire) \o DeflateBlock(B) \o Trailer(wire, B)

\* The streaming decoder's view of the input consumed so far: what it has
\* decoded, and whether it needs more input, is complete, or has failed.
Parse(wire, s) ==
    LET h  == Header(wire)
        hl == Len(h)
        n  == Len(s)
    IN  IF \E i \in 1..Min(n, hl) : s[i] # h[i]
        THEN [status |-> "error", out |-> <<>>]
        ELSE IF n <= hl THEN [status |-> "more", out |-> <<>>]
        ELSE IF s[hl + 1] # 1 THEN [status |-> "error", out |-> <<>>]
        ELSE IF n < hl + 3 THEN [status |-> "more", out |-> <<>>]
        ELSE IF s[hl + 3] # 255 - s[hl + 2] THEN [status |-> "error", out |-> <<>>]
        ELSE LET dataEnd == hl + 3 + s[hl + 2]
                 data    == SubSeq(s, hl + 4, Min(n, dataEnd))
             IN  IF n < dataEnd THEN [status |-> "more", out |-> data]
                 ELSE LET t   == Trailer(wire, data)
                          got == n - dataEnd
                      IN  IF \E i \in 1..Min(got, Len(t)) : s[dataEnd + i] # t[i]
                          THEN [status |-> "error", out |-> data]
                          ELSE IF got < Len(t)
                               THEN [status |-> "more", out |-> data]
                               ELSE [status |-> "done", out |-> data]

\* zlib.createX(): a fresh transform with nothing written and nothing produced.
NewTransform(name) ==
    [factory |-> name, wq |-> <<>>, inbuf |-> <<>>, hdrDone |-> FALSE,
     emitted |-> 0, rq |-> <<>>, produced |-> <<>>, ending |-> FALSE,
     finished |-> FALSE, ended |-> FALSE, destroyed |-> FALSE, errored |-> FALSE]

Push(t, bytes) ==
    IF bytes = <<>> THEN t
    ELSE [t EXCEPT !.rq = Append(@, bytes), !.produced = @ \o bytes]

Fail(t) == [t EXCEPT !.errored = TRUE, !.destroyed = TRUE, !.wq = <<>>]

\* The transform consumes the first pending chunk.
ProcessChunk(t) ==
    LET c     == ZlibCodec(t.factory)
        chunk == Head(t.wq)
        t1    == [t EXCEPT !.wq = Tail(@), !.inbuf = @ \o chunk]
    IN  IF c.dir = "compress"
        THEN IF t1.hdrDone THEN t1
             ELSE Push([t1 EXCEPT !.hdrDone = TRUE], Header(c.wire))
        ELSE LET p == Parse(c.wire, t1.inbuf)
                 fresh == SubSeq(p.out, t1.emitted + 1, Len(p.out))
                 t2 == Push([t1 EXCEPT !.emitted = Len(p.out)], fresh)
             IN  IF p.status = "error" THEN Fail(t2) ELSE t2

\* End of input: the codec flushes what it holds, or fails on a stream that
\* is not complete ("unexpected end of file").
Flush(t) ==
    LET c == ZlibCodec(t.factory)
    IN  IF c.dir = "compress"
        THEN LET t1 == IF t.hdrDone THEN t
                       ELSE Push([t EXCEPT !.hdrDone = TRUE], Header(c.wire))
                 t2 == Push(t1, DeflateBlock(t.inbuf) \o Trailer(c.wire, t.inbuf))
             IN  [t2 EXCEPT !.finished = TRUE, !.ended = TRUE]
        ELSE IF Parse(c.wire, t.inbuf).status = "done"
             THEN [t EXCEPT !.finished = TRUE, !.ended = TRUE]
             ELSE Fail(t)

(***************************************************************************)
(* Stream Bridge (node:stream).                                            *)
(***************************************************************************)
\* Readable.toWeb(transform)
ReadableToWeb(tid) ==
    [source |-> tid, state |-> "readable", cancelled |-> FALSE, received |-> <<>>]

\* Writable.toWeb(transform)
WritableToWeb(tid) ==
    [sink |-> tid, state |-> "writable", aborted |-> FALSE, written |-> <<>>,
     nwrites |-> 0]

(***************************************************************************)
(* The constructors.  Neither class is exported: a constructor is          *)
(* reachable only through the global name the module bound it to.          *)
(***************************************************************************)
Outcome(ctor, format, result, called, adapter) ==
    [ctor |-> ctor, arg |-> format, result |-> result, called |-> called,
     adapter |-> adapter]

CompressionStreamPolyfill_TwoTransforms(format) ==
    /\ globals["CompressionStream"] = "polyfill"
    /\ isValidFormat(format)
    /\ GetProperty(COMPRESSION_FORMATS, format.val).kind = "factory"
    /\ Len(adapters) < MaxAdapters
    /\ LET name == GetProperty(COMPRESSION_FORMATS, format.val).name
           tid  == Len(transforms) + 1
       IN  /\ transforms' = transforms \o <<NewTransform(name), NewTransform(name)>>
           /\ readables' = Append(readables, ReadableToWeb(tid))
           /\ writables' = Append(writables, WritableToWeb(tid + 1))
           /\ adapters' = Append(adapters,
                  [ctor |-> "CompressionStream", format |-> format.val,
                   readable |-> Len(readables) + 1, writable |-> Len(writables) + 1])
           /\ last' = Outcome("CompressionStream", format, "ok", name, Len(adapters) + 1)
    /\ UNCHANGED <<globals, loads>>

CompressionStreamPolyfill(format) ==
    /\ globals["CompressionStream"] = "polyfill"
    /\ IF ~isValidFormat(format)
       THEN /\ last' = Outcome("CompressionStream", format, "InvalidFormat", "none", 0)
            /\ UNCHANGED <<adapters, transforms, readables, writables>>
       ELSE LET member == GetProperty(COMPRESSION_FORMATS, format.val)
            IN  IF member.kind = "factory"
                THEN /\ Len(adapters) < MaxAdapters
                     /\ transforms' = Append(transforms, NewTransform(member.name))
                     /\ readables' = Append(readables, ReadableToWeb(Len(transforms) + 1))
                     /\ writables' = Append(writables, WritableToWeb(Len(transforms) + 1))
                     /\ adapters' = Append(adapters,
                            [ctor |-> "CompressionStream", format |-> format.val,
                             readable |-> Len(readables) + 1,
                             writable |-> Len(writables) + 1])
                     /\ last' = Outcome("CompressionStream", format, "ok",
                                        member.name, Len(adapters) + 1)
                ELSE \* the looked-up value is not a codec factory: calling it, or
                     \* handing its result to Readable.toWeb, throws a TypeError
                     /\ last' = Outcome("CompressionStream", format, "TypeError",
                                        IF member.kind = "function"
                                        THEN member.name ELSE "none", 0)
                     /\ UNCHANGED <<adapters, transforms, readables, writables>>
    /\ UNCHANGED <<globals, loads>>

DecompressionStreamPolyfill_TwoTransforms(format) ==
    /\ globals["DecompressionStream"] = "polyfill"
    /\ isValidFormat(format)
    /\ GetProperty(DECOMPRESSION_FORMATS, format.val).kind = "factory"
    /\ Len(adapters) < MaxAdapters
    /\ LET name == GetProperty(DECOMPRESSION_FORMATS, format.val).name
           tid  == Len(transforms) + 1
       IN  /\ transforms' = transforms \o <<NewTransform(name), NewTransform(name)>>
           /\ readables' = Append(readables, ReadableToWeb(tid))
           /\ writables' = Append(writables, WritableToWeb(tid + 1))
           /\ adapters' = Append(adapters,
                  [ctor |-> "DecompressionStream", format |-> format.val,
                   readable |-> Len(readables) + 1, writable |-> Len(writables) + 1])
           /\ last' = Outcome("DecompressionStream", format, "ok", name, Len(adapters) + 1)
    /\ UNCHANGED <<globals, loads>>

DecompressionStreamPolyfill(format) ==
    /\ globals["DecompressionStream"] = "polyfill"
    /\ IF ~isValidFormat(format)
       THEN /\ last' = Outcome("DecompressionStream", format, "InvalidFormat", "none", 0)
            /\ UNCHANGED <<adapters, transforms, readables, writables>>
       ELSE LET member == GetProperty(DECOMPRESSION_FORMATS, format.val)
            IN  IF member.kind = "factory"
                THEN /\ Len(adapters) < MaxAdapters
                     /\ transforms' = Append(transforms, NewTransform(member.name))
                     /\ readables' = Append(readables, ReadableToWeb(Len(transforms) + 1))
                     /\ writables' = Append(writables, WritableToWeb(Len(transforms) + 1))
                     /\ adapters' = Append(adapters,
                            [ctor |-> "DecompressionStream", format |-> format.val,
                             readable |-> Len(readables) + 1,
                             writable |-> Len(writables) + 1])
                     /\ last' = Outcome("DecompressionStream", format, "ok",
                                        member.name, Len(adapters) + 1)
                ELSE /\ last' = Outcome("DecompressionStream", format, "TypeError",
                                        IF member.kind = "function"
                                        THEN member.name ELSE "none", 0)
                     /\ UNCHANGED <<adapters, transforms, readables, writables>>
    /\ UNCHANGED <<globals, loads>>

(***************************************************************************)
(* Global registration, run each time the module body is evaluated.        *)
(***************************************************************************)
GlobalNames == {"CompressionStream", "DecompressionStream"}

Register_Always(g, name) == [g EXCEPT ![name] = "polyfill"]

\* if (typeof globalThis[name] === "undefined") Object.defineProperty(...)
Register(g, name) ==
    IF g[name] = "undefined" THEN [g EXCEPT ![name] = "polyfill"] ELSE g

LoadModule ==
    /\ loads < MaxLoads
    /\ loads' = loads + 1
    /\ globals' = Register(Register(globals, "CompressionStream"), "DecompressionStream")
    /\ UNCHANGED <<adapters, transforms, readables, writables, last>>

(***************************************************************************)
(* What the callers write.  A compression adapter is fed payload bytes; a  *)
(* decompression adapter is fed, in pieces of any length, a stream made by *)
(* an independent encoder of any format, such a stream with one byte       *)
(* damaged, or the bytes read from a finished compression adapter.         *)
(***************************************************************************)
PayloadBytes == {0, 1}

Payloads == UNION {[1..n -> PayloadBytes] : n \in 0..MaxLen}

Wires == {"gzip", "zlib", "raw"}

Damage(s, i) == [s EXCEPT ![i] = (@ + 1) % 256]

EncodedStreams == {Encode(w, B) : w \in Wires, B \in Payloads}

DamagedStreams == UNION {{Damage(s, i) : i \in 1..Len(s)} : s \in EncodedStreams}

IsPrefix(p, s) == Len(p) <= Len(s) /\ SubSeq(s, 1, Len(p)) = p

Reader(a) == readables[adapters[a].readable]

Writer(a) == writables[adapters[a].writable]

Done(r) == r.state = "closed" /\ ~r.cancelled

\* What has been read so far from the compression adapters.
CompressedOutputs ==
    {Reader(a).received : a \in {b \in 1..Len(adapters) :
        adapters[b].ctor = "CompressionStream"}}

\* The chunks a caller may write next to adapter a: payload bytes for a
\* compression adapter, the next piece of one of `streams` for a
\* decompression adapter.
ChunksFor(a, streams) ==
    LET w == Writer(a).written
        n == Len(w)
    IN  IF adapters[a].ctor = "CompressionStream"
        THEN UNION {[1..k -> PayloadBytes] : k \in 1..(MaxLen - n)}
        ELSE UNION {{SubSeq(s, n + 1, k) : k \in (n + 1)..Len(s)} :
                 s \in {x \in streams : IsPrefix(w, x)}}

(***************************************************************************)
(* Data flow.  After construction no code of the adapter runs: every step  *)
(* is one of the bridge or of the transform.                               *)
(***************************************************************************)
\* writer.write(chunk): the chunk is queued on the transform.
WriterWrite(a, chunk) ==
    LET wid == adapters[a].writable
        tid == writables[wid].sink
    IN  /\ writables[wid].state = "writable"
        /\ ~transforms[tid].destroyed
        /\ Len(transforms[tid].wq) < MaxPending
        /\ writables' = [writables EXCEPT ![wid].written = @ \o chunk,
                                          ![wid].nwrites = @ + 1]
        /\ transforms' = [transforms EXCEPT ![tid].wq = Append(@, chunk)]
        /\ UNCHANGED <<globals, adapters, readables, last, loads>>

\* writer.close(): transform.end().
WriterClose(a) ==
    LET wid == adapters[a].writable
        tid == writables[wid].sink
    IN  /\ writables[wid].state = "writable"
        /\ writables' = [writables EXCEPT ![wid].state = "closing"]
        /\ transforms' = [transforms EXCEPT ![tid].ending = TRUE]
        /\ UNCHANGED <<globals, adapters, readables, last, loads>>

\* writer.abort(): the transform is destroyed.
WriterAbort(a) ==
    LET wid == adapters[a].writable
        tid == writables[wid].sink
    IN  /\ writables[wid].state \in {"writable", "closing"}
        /\ writables' = [writables EXCEPT ![wid].state = "errored", ![wid].aborted = TRUE]
        /\ transforms' = [transforms EXCEPT ![tid].destroyed = TRUE,
                                            ![tid].wq = <<>>, ![tid].rq = <<>>]
        /\ UNCHANGED <<globals, adapters, readables, last, loads>>

\* The bridge learns that the transform behind the writable side is over:
\* destroyed (the stream errors) or finished after close() (it closes).
WritableOnFinished(a) ==
    LET wid == adapters[a].writable
        t   == transforms[writables[wid].sink]
    IN  /\ writables[wid].state \in {"writable", "closing"}
        /\ IF t.destroyed
           THEN writables' = [writables EXCEPT ![wid].state = "errored"]
           ELSE /\ writables[wid].state = "closing"
                /\ t.finished
                /\ writables' = [writables EXCEPT ![wid].state = "closed"]
        /\ UNCHANGED <<globals, adapters, transforms, readables, last, loads>>

\* The transform takes the next queued chunk.
TransformProcess(tid) ==
    /\ ~transforms[tid].destroyed
    /\ transforms[tid].wq # <<>>
    /\ transforms' = [transforms EXCEPT ![tid] = ProcessChunk(@)]
    /\ UNCHANGED <<globals, adapters, readables, writables, last, loads>>

\* The transform reaches the end of its input.
TransformFlush(tid) ==
    /\ ~transforms[tid].destroyed
    /\ transforms[tid].ending
    /\ ~transforms[tid].finished
    /\ transforms[tid].wq = <<>>
    /\ transforms' = [transforms EXCEPT ![tid] = Flush(@)]
    /\ UNCHANGED <<globals, adapters, readables, writables, last, loads>>

\* reader.read(): the next chunk, or done once the transform has ended and
\* everything it produced was delivered.
ReaderRead(a) ==
    LET rid == adapters[a].readable
        tid == readables[rid].source
        t   == transforms[tid]
    IN  /\ readables[rid].state = "readable"
        /\ IF t.rq # <<>>
           THEN /\ readables' = [readables EXCEPT ![rid].received = @ \o Head(t.rq)]
                /\ transforms' = [transforms EXCEPT ![tid].rq = Tail(@)]
           ELSE /\ t.ended
                /\ ~t.destroyed
                /\ readables' = [readables EXCEPT ![rid].state = "closed"]
                /\ UNCHANGED transforms
        /\ UNCHANGED <<globals, adapters, writables, last, loads>>

\* reader.cancel(): the transform is destroyed.
ReaderCancel(a) ==
    LET rid == adapters[a].readable
        tid == readables[rid].source
    IN  /\ readables[rid].state = "readable"
        /\ readables' = [readables EXCEPT ![rid].state = "closed", ![rid].cancelled = TRUE]
        /\ transforms' = [transforms EXCEPT ![tid].destroyed = TRUE,
                                            ![tid].wq = <<>>, ![tid].rq = <<>>]
        /\ UNCHANGED <<globals, adapters, writables, last, loads>>

\* The bridge learns that the transform behind the readable side was
\* destroyed before its end: the stream errors.
ReadableOnFinished(a) ==
    LET rid == adapters[a].readable
        t   == transforms[readables[rid].source]
    IN  /\ readables[rid].state = "readable"
        /\ t.destroyed
        /\ readables' = [readables EXCEPT ![rid].state = "errored"]
        /\ UNCHANGED <<globals, adapters, transforms, writables, last, loads>>

Init ==
    /\ globals \in [GlobalNames -> {"undefined", "native"}]
    /\ adapters = <<>>
    /\ transforms = <<>>
    /\ readables = <<>>
    /\ writables = <<>>
    /\ last = Outcome("none", [type |-> "undefined", val |-> "undefined"], "none", "none", 0)
    /\ loads = 0

Construction ==
    \/ LoadModule
    \/ \E format \in ArgValues : CompressionStreamPolyfill(format)
    \/ \E format \in ArgValues : DecompressionStreamPolyfill(format)

\* Every constructor call a program can make, with any argument, in any
\* environment.
Spec == Init /\ [][Construction]_vars

\* The module has been loaded once on a runtime that defines neither name.
InitStream ==
    /\ globals = [n \in GlobalNames |-> "polyfill"]
    /\ adapters = <<>>
    /\ transforms = <<>>
    /\ readables = <<>>
    /\ writables = <<>>
    /\ last = Outcome("none", [type |-> "undefined", val |-> "undefined"], "none", "none", 0)
    /\ loads = 1

\* The steps the runtime takes by itself: the transform's and the bridge's.
EventLoop ==
    \/ \E tid \in 1..Len(transforms) : TransformProcess(tid)
    \/ \E tid \in 1..Len(transforms) : TransformFlush(tid)
    \/ \E a \in 1..Len(adapters) : WritableOnFinished(a)
    \/ \E a \in 1..Len(adapters) : ReadableOnFinished(a)

Transport ==
    \/ \E a \in 1..Len(adapters) : WriterClose(a)
    \/ \E a \in 1..Len(adapters) : ReaderRead(a)
    \/ EventLoop

\* One adapter, constructed with a supported format, written to, read from,
\* closed, aborted and cancelled in any order; a decompression adapter is
\* fed independent encoders' streams, whole, cut short or damaged.
NextStream ==
    \/ adapters = <<>> /\ \E format \in FormatValues : CompressionStreamPolyfill(format)
    \/ adapters = <<>> /\ \E format \in FormatValues : DecompressionStreamPolyfill(format)
    \/ \E a \in 1..Len(adapters) :
          \E chunk \in ChunksFor(a, EncodedStreams \cup DamagedStreams) : WriterWrite(a, chunk)
    \/ \E a \in 1..Len(adapters) : WriterAbort(a)
    \/ \E a \in 1..Len(adapters) : ReaderCancel(a)
    \/ Transport

StreamSpec == InitStream /\ [][NextStream]_vars

\* Several adapters at once, run to the end of their input; a decompression
\* adapter is fed what has been read from a compression adapter.
NextPipe ==
    \/ \E format \in FormatValues : CompressionStreamPolyfill(format)
    \/ \E format \in FormatValues : DecompressionStreamPolyfill(format)
    \/ \E a \in 1..Len(adapters) :
          \E chunk \in ChunksFor(a, CompressedOutputs) : WriterWrite(a, chunk)
    \/ Transport

PipeSpec == InitStream /\ [][NextPipe]_vars

\* The steps that need no further call of the program: the runtime's own
\* and the reads of a consumer that keeps reading.
Pending == EventLoop \/ \E a \in 1..Len(adapters) : ReaderRead(a)

\* Nothing is left to do unless the program makes another call.
Quiescent == ~ENABLED Pending

\* What is left to do: every pending step lowers it, so a run in which the
\* program stops calling comes to rest.
RECURSIVE Work(_)
Work(ts) ==
    IF ts = <<>> THEN 0
    ELSE 2 * Len(Head(ts).wq) + Len(Head(ts).rq)
         + (IF Head(ts).finished \/ Head(ts).destroyed THEN 0 ELSE 3)
         + Work(Tail(ts))

Remaining ==
    Work(transforms)
    + Cardinality({r \in 1..Len(readables) : readables[r].state = "readable"})
    + Cardinality({w \in 1..Len(writables) : writables[w].state \in {"writable", "closing"}})

Progress == [][Pending => Remaining' < Remaining]_vars

(***************************************************************************)
(* Reference notions the properties are stated against.                    *)
(***************************************************************************)
\* The wire representation each format name stands for.
WireOf(format) ==
    CASE format = "gzip"        -> "gzip"
      [] format = "deflate"     -> "zlib"
      [] format = "deflate-raw" -> "raw"

DirOf(ctor) == IF ctor = "CompressionStream" THEN "compress" ELSE "decompress"

\* A one-shot decoder of the wire format, independent of the streaming one:
\* it cuts the payload out by position and accepts when re-encoding the
\* payload gives the input back.
IndependentDecode(wire, s) ==
    LET hl == Len(Header(wire))
        tl == Len(Trailer(wire, <<>>))
        B  == SubSeq(s, hl + 4, Len(s) - tl)
    IN  IF Len(s) >= hl + 3 + tl /\ Encode(wire, B) = s
        THEN [ok |-> TRUE, data |-> B]
        ELSE [ok |-> FALSE, data |-> <<>>]

RECURSIVE Flatten(_)
Flatten(chunks) ==
    IF chunks = <<>> THEN <<>> ELSE Head(chunks) \o Flatten(Tail(chunks))

Undisturbed(a) == ~Writer(a).aborted /\ ~Reader(a).cancelled

\* close() was called on the writable side.
CloseRequested(a) == transforms[Writer(a).sink].ending

(***************************************************************************)
(* C1.  A value that is not exactly "gzip", "deflate" or "deflate-raw"     *)
(* makes both constructors fail with the InvalidFormat error, before any   *)
(* looked-up function is called and before any stream exists.              *)
(***************************************************************************)
C1_InvalidFormatRejected ==
    (last.ctor # "none" /\ last.arg \notin FormatValues)
        => /\ last.result = "InvalidFormat"
           /\ last.called = "none"
           /\ last.adapter = 0

(***************************************************************************)
(* C2.  For each of the three formats and each constructor, construction   *)
(* succeeds and the new object holds a readable and a writable stream.     *)
(***************************************************************************)
C2_ValidFormatConstructs ==
    (last.ctor # "none" /\ last.arg \in FormatValues)
        => /\ last.result = "ok"
           /\ last.adapter \in 1..Len(adapters)
           /\ LET a == adapters[last.adapter]
              IN  /\ a.ctor = last.ctor
                  /\ a.format = last.arg.val
                  /\ a.readable \in 1..Len(readables)
                  /\ a.writable \in 1..Len(writables)
                  /\ readables[a.readable].state = "readable"
                  /\ writables[a.writable].state = "writable"

C2_Witness ==
    /\ Len(adapters) = 2
    /\ adapters[1].ctor = "CompressionStream"
    /\ adapters[2].ctor = "DecompressionStream"
    /\ adapters[2].format = "deflate-raw"
    /\ last.result = "ok"
    /\ last.adapter = 2

(***************************************************************************)
(* C4.  Loading the module leaves a global name that is already defined    *)
(* as it is and binds an undefined one to the polyfill; after a load both  *)
(* names are defined, a further load changes nothing, and nothing but a    *)
(* load changes them.                                                      *)
(***************************************************************************)
C4_RegistrationKeepsExisting ==
    /\ [][loads' # loads =>
            \A n \in GlobalNames :
                globals'[n] = IF globals[n] = "undefined" THEN "polyfill" ELSE globals[n]]_vars
    /\ [][(loads >= 1 \/ loads' = loads) => globals' = globals]_vars
    /\ [](loads >= 1 => \A n \in GlobalNames : globals[n] # "undefined")

C4_Witness ==
    /\ loads = 2
    /\ globals["CompressionStream"] = "native"
    /\ globals["DecompressionStream"] = "polyfill"

(***************************************************************************)
(* C9.  The adapter for format f runs the codec of exactly that format in  *)
(* its own direction: what a compression adapter emits is decoded to the   *)
(* written bytes by an independent decoder of f, and a stream made by an   *)
(* independent encoder of f is decoded to its payload, without error, by   *)
(* the decompression adapter for f.                                        *)
(***************************************************************************)
C9_FormatDispatch ==
    \A a \in 1..Len(adapters) :
        LET f == WireOf(adapters[a].format)
            t == transforms[Reader(a).source]
            w == Writer(a).written
        IN  /\ ZlibCodec(t.factory) = [dir |-> DirOf(adapters[a].ctor), wire |-> f]
            /\ ZlibCodec(transforms[Writer(a).sink].factory) =
                   [dir |-> DirOf(adapters[a].ctor), wire |-> f]
            /\ (adapters[a].ctor = "CompressionStream" /\ Done(Reader(a)))
                   => IndependentDecode(f, Reader(a).received) = [ok |-> TRUE, data |-> w]
            /\ (adapters[a].ctor = "DecompressionStream" /\ Undisturbed(a)
                  /\ \E B \in Payloads : w = Encode(f, B))
                   => /\ ~t.errored
                      /\ Reader(a).state # "errored"
                      /\ Done(Reader(a)) => Encode(f, Reader(a).received) = w

C9_Witness ==
    /\ Len(adapters) = 1
    /\ adapters[1].ctor = "DecompressionStream"
    /\ adapters[1].format = "deflate"
    /\ Writer(1).written = Encode("zlib", <<1, 0>>)
    /\ Done(Reader(1))
    /\ Reader(1).received = <<1, 0>>

(***************************************************************************)
(* C10.  Every successful construction allocates exactly one transform;    *)
(* both sides of an adapter are bridged to it; no transform belongs to two *)
(* adapters; a transform has consumed, in order, exactly what was written  *)
(* to its own adapter; and a write to one adapter leaves the transform and *)
(* the readable side of every other adapter as they were.                  *)
(***************************************************************************)
C10_TransformOwnership ==
    /\ [](/\ Len(transforms) = Len(adapters)
          /\ \A a \in 1..Len(adapters) :
                /\ Reader(a).source = Writer(a).sink
                /\ Reader(a).source \in 1..Len(transforms)
                /\ transforms[Writer(a).sink].inbuf \o Flatten(transforms[Writer(a).sink].wq)
                       = Writer(a).written
                /\ \A b \in 1..Len(adapters) :
                      a # b => /\ Reader(a).source # Reader(b).source
                               /\ adapters[a].readable # adapters[b].readable
                               /\ adapters[a].writable # adapters[b].writable)
    /\ [][\A a \in 1..Len(adapters) :
            Writer(a).written # writables'[adapters[a].writable].written
                => \A b \in 1..Len(adapters) :
                      a # b => /\ transforms'[Reader(b).source] = transforms[Reader(b).source]
                               /\ readables'[adapters[b].readable] = Reader(b)
                               /\ writables'[adapters[b].writable] = Writer(b)]_vars

C10_Witness ==
    /\ Len(adapters) = 2
    /\ Writer(1).written # <<>>
    /\ Writer(2).written # <<>>
    /\ transforms[Writer(1).sink].inbuf # <<>>
    /\ transforms[Writer(2).sink].wq # <<>>

(***************************************************************************)
(* C3.  Round trip: what a decompression adapter of format f makes of the  *)
(* bytes read from a compression adapter of the same format f is, piece by *)
(* piece, the bytes written to the compression adapter, and once both have *)
(* run to the end it is exactly those bytes; the decoder fails only when   *)
(* it is closed on less than the whole compressed stream.                  *)
(***************************************************************************)
FedFrom(d, c) ==
    /\ adapters[c].ctor = "CompressionStream"
    /\ adapters[d].ctor = "DecompressionStream"
    /\ adapters[c].format = adapters[d].format
    /\ IsPrefix(Writer(d).written, Reader(c).received)

\* Everything adapter c will ever emit has been read from it.
AllRead(c) ==
    /\ transforms[Reader(c).source].ended
    /\ transforms[Reader(c).source].rq = <<>>

C3_RoundTrip ==
    \A c \in 1..Len(adapters) : \A d \in 1..Len(adapters) :
        FedFrom(d, c) =>
            LET td == transforms[Reader(d).source]
            IN  /\ IsPrefix(Reader(d).received, Writer(c).written)
                /\ Done(Reader(d)) => /\ AllRead(c)
                                      /\ Writer(d).written = Reader(c).received
                                      /\ Reader(d).received = Writer(c).written
                /\ td.errored => /\ CloseRequested(d)
                                 /\ ~(AllRead(c) /\ Writer(d).written = Reader(c).received)

C3_Witness ==
    /\ Len(adapters) = 2
    /\ FedFrom(2, 1)
    /\ adapters[1].format = "gzip"
    /\ Writer(1).written = <<0, 1>>
    /\ Done(Reader(1))
    /\ Done(Reader(2))
    /\ Reader(2).received = <<0, 1>>

C3_EmptyWitness ==
    /\ Len(adapters) = 2
    /\ FedFrom(2, 1)
    /\ Writer(1).written = <<>>
    /\ Done(Reader(1))
    /\ Done(Reader(2))

(***************************************************************************)
(* C6.  The result of a run depends only on the concatenation, in the      *)
(* order submitted, of the chunks written: it is what the same codec makes *)
(* of that concatenation written as one chunk; for a compression adapter   *)
(* the output decodes to the concatenation, for a decompression adapter    *)
(* the bytes read are the payload of the concatenation.                    *)
(***************************************************************************)
\* The transform of `factory` given `s` as a single chunk and then ended.
WholeRun(factory, s) ==
    LET t0 == [NewTransform(factory) EXCEPT !.ending = TRUE]
        t1 == IF s = <<>> THEN t0 ELSE ProcessChunk([t0 EXCEPT !.wq = <<s>>])
    IN  IF t1.destroyed THEN t1 ELSE Flush(t1)

C6_SplitStreamWitness ==
    /\ Len(adapters) = 1
    /\ adapters[1].ctor = "DecompressionStream"
    /\ Writer(1).nwrites = 2
    /\ Writer(1).written = Encode("gzip", <<1, 0>>)
    /\ Done(Reader(1))

(***************************************************************************)
(* C8.  Corrupt input to a decompression adapter: construction with a      *)
(* supported format succeeds; the readable side never ends normally on     *)
(* input that is not a complete valid stream of the declared format; the   *)
(* codec fails only on such input, and only once bytes were written or     *)
(* close() was called.                                                     *)
(***************************************************************************)
C8_CorruptInputIsStreamError ==
    /\ last.ctor = "DecompressionStream" => last.result = "ok"
    /\ \A a \in 1..Len(adapters) :
          adapters[a].ctor = "DecompressionStream" =>
            LET f == WireOf(adapters[a].format)
                t == transforms[Reader(a).source]
                w == Writer(a).written
            IN  /\ Done(Reader(a))
                    => IndependentDecode(f, w) = [ok |-> TRUE, data |-> Reader(a).received]
                /\ t.errored
                    => /\ w # <<>> \/ CloseRequested(a)
                       /\ ~(IndependentDecode(f, w).ok /\ t.inbuf = w)
                /\ (Reader(a).state = "errored" /\ Undisturbed(a)) => t.errored

\* A gzip stream cut short: the payload was delivered, then the stream errors.
C8_Witness ==
    /\ Len(adapters) = 1
    /\ adapters[1].ctor = "DecompressionStream"
    /\ adapters[1].format = "gzip"
    /\ Writer(1).written = SubSeq(Encode("gzip", <<0, 1>>), 1, 9)
    /\ CloseRequested(1)
    /\ Undisturbed(1)
    /\ Reader(1).received = <<0, 1>>
    /\ Reader(1).state = "errored"

(***************************************************************************)
(* C7.  Cancelling the readable side or aborting the writable side         *)
(* destroys the adapter's transform, and the opposite side then reaches    *)
(* an errored or closed state.                                             *)
(***************************************************************************)
C7_CancellationPropagates ==
    /\ [](\A a \in 1..Len(adapters) :
            (Reader(a).cancelled \/ Writer(a).aborted)
                => /\ transforms[Reader(a).source].destroyed
                   /\ transforms[Writer(a).sink].destroyed)
    /\ [](Quiescent =>
            \A a \in 1..Len(adapters) :
                /\ Reader(a).cancelled => Writer(a).state \in {"closed", "errored"}
                /\ Writer(a).aborted => Reader(a).state \in {"closed", "errored"})
    /\ Progress

C7_Witness ==
    /\ Len(adapters) = 1
    /\ Reader(1).cancelled
    /\ Reader(1).received # <<>>
    /\ Writer(1).state = "errored"
    /\ ~Writer(1).aborted
    /\ Quiescent

C7_AbortWitness ==
    /\ Len(adapters) = 1
    /\ Writer(1).aborted
    /\ Writer(1).written # <<>>
    /\ Reader(1).state = "errored"
    /\ Quiescent

(***************************************************************************)
(* C5.  Once close() was called on the writable side, the readable side    *)
(* ends: when the runtime and a consumer that keeps reading have nothing   *)
(* left to do, a read has reported done.                                   *)
(***************************************************************************)
C5_ClosedEventuallyEnds ==
    Quiescent =>
        \A a \in 1..Len(adapters) :
            (CloseRequested(a) /\ Undisturbed(a)) => Done(Reader(a))

(***************************************************************************)
(* C5, amended.  Once close() was called on the writable side and nobody   *)
(* aborts or cancels, the readable side ends or errors: when the runtime   *)
(* and a consumer that keeps reading have nothing left to do (and every    *)
(* step of theirs brings that nearer), a read has reported done or the     *)
(* stream is errored; it has reported done whenever the adapter compresses *)
(* or the bytes written are a complete valid stream of the declared        *)
(* format; and done is reported only after the transform has ended and     *)
(* every byte it produced, the bytes flushed at the end of input included, *)
(* has been read.                                                          *)
(***************************************************************************)
WellFormedInput(a) ==
    \/ adapters[a].ctor = "CompressionStream"
    \/ IndependentDecode(WireOf(adapters[a].format), Writer(a).written).ok

C5_ClosedEndsOrErrors ==
    /\ [](Quiescent =>
            \A a \in 1..Len(adapters) :
                (CloseRequested(a) /\ Undisturbed(a))
                    => /\ Done(Reader(a)) \/ Reader(a).state = "errored"
                       /\ WellFormedInput(a) => Done(Reader(a)))
    /\ [](\A a \in 1..Len(adapters) :
            Done(Reader(a))
                => LET t == transforms[Reader(a).source]
                   IN  /\ CloseRequested(a)
                       /\ t.ended
                       /\ Reader(a).received = t.produced
                       /\ adapters[a].ctor = "CompressionStream"
                            => Reader(a).received =
                                 Encode(WireOf(adapters[a].format), Writer(a).written))
    /\ Progress

C5_Witness ==
    /\ Len(adapters) = 1
    /\ adapters[1].ctor = "CompressionStream"
    /\ adapters[1].format = "gzip"
    /\ Writer(1).nwrites = 2
    /\ Done(Reader(1))
    /\ Reader(1).received = Encode("gzip", Writer(1).written)

====
